---- MODULE Spec2Model ----
(***************************************************************************)
(* Calculadora CEDEARs (src/app.py): the ratio parser, the PDF strategy    *)
(* selection, the cached source loader and the price calculator with its   *)
(* session history.  Texts are sequences of one-character strings; money   *)
(* is counted in cents.                                                    *)
(***************************************************************************)
EXTENDS Integers, Sequences, FiniteSets, TLC

VARIABLES
    text,          \* argument of parse_ratios_from_text being assembled
    parsed,        \* parse_ratios_from_text has returned for `text`
    direct,        \* the table after the direct pass (line 125), before line 128
    table,         \* the table returned by parse_ratios_from_text (line 141)
    fallbackRan,   \* the branch of line 128 was taken
    pdf,           \* argument of parse_ratios_from_pdf_bytes
    pdfResult,     \* its returned table
    pymupdfCalled, \* extract_text_pymupdf was invoked by that call
    pdfDone,       \* parse_ratios_from_pdf_bytes has returned
    now,           \* wall clock, in seconds
    upload_pdf_bytes, \* st.session_state["_upload_pdf_bytes"]
    cache,         \* st.cache_data store of load_ratios_from_source
    ratios,        \* module-level `ratios` of the current script run
    loadRan,       \* the body of load_ratios_from_source ran in the last run
    cclCache,      \* st.cache_data store of get_ccl_price
    hist,          \* st.session_state["hist"]
    outcome,       \* what the calculate handler showed in the last run
    result,        \* the tuple calcular_precio_cedear returned in the last run
    asked,         \* the last run's inputs: the button and the ticker typed
    fetchedPx,     \* what get_stock_price_usd answered in the last run, if called
    mode           \* the source the sidebar used in the last run

vars == << text, parsed, direct, table, fallbackRan, pdf, pdfResult, pymupdfCalled,
           pdfDone, now, upload_pdf_bytes, cache, ratios, loadRan, cclCache, hist,
           outcome, result, asked, fetchedPx, mode >>

parseVars == << text, parsed, direct, table, fallbackRan >>
pdfVars == << pdf, pdfResult, pymupdfCalled, pdfDone >>
appVars == << now, upload_pdf_bytes, cache, ratios, loadRan, cclCache, hist,
              outcome, result, asked, fetchedPx, mode >>

(***************************************************************************)
(* Character classes of the regular expressions.                           *)
(***************************************************************************)
Upper == { "A","B","C","D","E","F","G","H","I","J","K","L","M",
           "N","O","P","Q","R","S","T","U","V","W","X","Y","Z" }
Lower == { "a","b","c","d","e","f","g","h","i","j","k","l","m",
           "n","o","p","q","r","s","t","u","v","w","x","y","z" }
Digit == { "0","1","2","3","4","5","6","7","8","9" }
Space == { " ", "\n", "\t", "\r" }
WordChar == Upper \cup Lower \cup Digit \cup { "_" }
SymClass == Upper \cup Digit \cup { "." }

STOPWORDS ==
    { <<"C","E","D","E","A","R">>,
      <<"C","E","D","E","A","R","S">>,
      <<"B","Y","M","A">>,
      <<"B","O","L","S","A","S">>,
      <<"M","E","R","C","A","D","O","S">>,
      <<"A","R","G","E","N","T","I","N","O","S">>,
      <<"R","A","T","I","O">>,
      <<"V","A","L","O","R">>,
      <<"S","U","B","Y","A","C","E","N","T","E">>,
      <<"I","S","I","N">>,
      <<"C","U","S","I","P">>,
      <<"N","A","S","D","A","Q">>,
      <<"N","Y","S","E">>,
      <<"L","S","E">>,
      <<"A","M","E","X">>,
      <<"U","S","D">>,
      <<"A","R","S">>,
      <<"E","T","F">>,
      <<"S","E","D","E">>,
      <<"A","C","C","I","O","N">>,
      <<"E","M","P","R","E","S","A">>,
      <<"S","E","C","T","O","R">>,
      <<"I","N","D","E","X">>,
      <<"T","A","B","L","E">>,
      <<"P","A","G","E">>,
      <<"V","O","L">>,
      <<"C","U","S","P","I","D">>,
      <<"A","D","R">>,
      <<"R","A","T","I","O",":">>,
      <<"C","E","D">>,
      <<"P","R","O","G","R","A","M","A","S">>,
      <<"B","O","L","S","A","S","Y">>,
      <<"M","E","R","C","A","D","O","S","A","R","G","E","N","T","I","N","O","S">>,
      <<"D","E">>,
      <<"L","A">>,
      <<"E","L">>,
      <<"E","N">>,
      <<"S","U","B","Y","A","C","E","N","T","E",":">>,
      <<"R","A","T","I","O","C","E","D","E","A","R","/","V","A","L","O","R","S","U","B","Y","A","C","E","N","T","E">>,
      <<"R","A","T","I","O","C","E","D","E","A","R">>,
      <<"V","A","L","O","R","S","U","B","Y","A","C","E","N","T","E">>,
      <<"E","N","E","R","O">>,
      <<"F","E","B","R","E","R","O">>,
      <<"M","A","R","Z","O">>,
      <<"A","B","R","I","L">>,
      <<"M","A","Y","O">>,
      <<"J","U","N","I","O">>,
      <<"J","U","L","I","O">>,
      <<"A","G","O","S","T","O">>,
      <<"S","E","P","T","I","E","M","B","R","E">>,
      <<"O","C","T","U","B","R","E">>,
      <<"N","O","V","I","E","M","B","R","E">>,
      <<"D","I","C","I","E","M","B","R","E">>,
      <<"M","O","N","D","A","Y">>,
      <<"T","U","E","S","D","A","Y">>,
      <<"W","E","D","N","E","S","D","A","Y">>,
      <<"T","H","U","R","S","D","A","Y">>,
      <<"F","R","I","D","A","Y">>,
      <<"S","A","T","U","R","D","A","Y">>,
      <<"S","U","N","D","A","Y">> }

EmptyTable == [k \in {} |-> 0]

\* ratios[k] = v of a Python dict: insert, or overwrite the value of k.
DictSet(d, k, v) == (k :> v) @@ d

DigitVal(c) ==
    CASE c = "0" -> 0 [] c = "1" -> 1 [] c = "2" -> 2 [] c = "3" -> 3 [] c = "4" -> 4
      [] c = "5" -> 5 [] c = "6" -> 6 [] c = "7" -> 7 [] c = "8" -> 8 [] c = "9" -> 9

\* int(rx.split(":")[0]) for the digits t[from..to]
RECURSIVE IntOf(_, _, _)
IntOf(t, from, to) ==
    IF to < from THEN 0 ELSE 10 * IntOf(t, from, to - 1) + DigitVal(t[to])

\* ^[A-Z]{1,6}(?:\.[A-Z]{1,2})?$
TICKER_RE(tok) ==
    \E n \in 1..6 :
        /\ n <= Len(tok)
        /\ \A i \in 1..n : tok[i] \in Upper
        /\ \/ Len(tok) = n
           \/ /\ tok[n + 1] = "."
              /\ Len(tok) - n - 1 \in 1..2
              /\ \A i \in (n + 2)..Len(tok) : tok[i] \in Upper

\* ^(\d{1,3}):1$
RATIO_RE(tok) ==
    /\ Len(tok) \in 3..5
    /\ \A i \in 1..(Len(tok) - 2) : tok[i] \in Digit
    /\ tok[Len(tok) - 1] = ":"
    /\ tok[Len(tok)] = "1"

\* is_ticker_token with the STOPWORDS test of lines 105-106 left out
is_ticker_token_shape_only(tok) == TICKER_RE(tok)

is_ticker_token(tok) ==
    IF ~TICKER_RE(tok) THEN FALSE
    ELSE IF tok \in STOPWORDS THEN FALSE
    ELSE TRUE

\* One position of normalize_text: a whitespace run collapses to one space.
NormChar(t, i) ==
    IF t[i] \in Space
    THEN IF i > 1 /\ t[i - 1] \in Space THEN << >> ELSE << " " >>
    ELSE << t[i] >>

RECURSIVE NormRange(_, _, _)
NormRange(t, lo, hi) ==
    IF lo > hi THEN << >>
    ELSE IF lo = hi THEN NormChar(t, lo)
    ELSE NormRange(t, lo, (lo + hi) \div 2) \o NormRange(t, ((lo + hi) \div 2) + 1, hi)

normalize_text(t) == NormRange(t, 1, Len(t))

\* re.sub(r"[^A-Z\.]", "", tk)
RECURSIVE CleanTicker(_)
CleanTicker(tk) ==
    IF tk = << >> THEN << >>
    ELSE IF Head(tk) \in Upper \cup {"."}
         THEN << Head(tk) >> \o CleanTicker(Tail(tk))
         ELSE CleanTicker(Tail(tk))

\* \b between t[p-1] and t[p]
IsWordAt(t, i) == i \in 1..Len(t) /\ t[i] \in WordChar
Boundary(t, p) == IsWordAt(t, p - 1) # IsWordAt(t, p)

\* length of the longest run of class cls starting at t[p], at most max
RECURSIVE RunLen(_, _, _, _)
RunLen(t, p, cls, max) ==
    IF max = 0 \/ p > Len(t) \/ t[p] \notin cls THEN 0
    ELSE 1 + RunLen(t, p + 1, cls, max - 1)

\* (\d{1,3}:1) at t[g], the greedy \d{1,3} having taken nd digits: the number
\* of digits matched, 0 when there is no match
RatioLenFrom(t, g, nd) ==
    IF nd >= 1 /\ g + nd + 1 <= Len(t) /\ t[g + nd] = ":" /\ t[g + nd + 1] = "1"
    THEN nd ELSE 0

RatioLenAt(t, g) == RatioLenFrom(t, g, RunLen(t, g, Digit, 3))

\* [^:]{0,60}? followed by the ratio group, from t[p]: the least gap k, -1 for none
RECURSIVE LazyGap(_, _, _)
LazyGap(t, p, k) ==
    IF RatioLenAt(t, p + k) > 0 THEN k
    ELSE IF k >= 60 \/ p + k > Len(t) \/ t[p + k] = ":" THEN -1
    ELSE LazyGap(t, p, k + 1)

\* the match with n characters in group 1, a gap of k and nd digits in group 2
MatchRecord(t, s, n, k, nd) ==
    [ok |-> TRUE, tk |-> SubSeq(t, s, s + n - 1),
     from |-> s + n + k, to |-> s + n + k + nd - 1, end |-> s + n + k + nd + 2]

\* \b([A-Z0-9\.]{1,6})\b from t[s] with n characters in the group, then the
\* rest; the greedy group gives characters back one at a time
RECURSIVE DirectTry(_, _, _)
RECURSIVE DirectTryGap(_, _, _, _)
DirectTryGap(t, s, n, k) ==
    IF k >= 0 THEN MatchRecord(t, s, n, k, RatioLenAt(t, s + n + k))
    ELSE DirectTry(t, s, n - 1)

DirectTry(t, s, n) ==
    IF n = 0 THEN [ok |-> FALSE]
    ELSE DirectTryGap(t, s, n, IF Boundary(t, s + n) THEN LazyGap(t, s + n, 0) ELSE -1)

DirectMatchAt(t, s) ==
    IF ~Boundary(t, s) THEN [ok |-> FALSE]
    ELSE DirectTry(t, s, RunLen(t, s, SymClass, 6))

\* lines 123-125 for the cleaned ticker tk and the ratio r
DirectStore(tbl, tk, r) ==
    IF is_ticker_token(tk) THEN DictSet(tbl, tk, r) ELSE tbl

\* re.findall at the scan position st.pos with m the match there: a match is
\* recorded (lines 120-125) and the scan resumes after it, no match moves the
\* scan one character on
DirectAtMatch(t, st, m) ==
    IF m.ok
    THEN [pos |-> m.end,
          tbl |-> DirectStore(st.tbl, CleanTicker(m.tk), IntOf(t, m.from, m.to))]
    ELSE [pos |-> st.pos + 1, tbl |-> st.tbl]

DirectAt(t, st) == DirectAtMatch(t, st, DirectMatchAt(t, st.pos))

\* the scan over the positions lo..hi, entered at st.pos >= lo, left to right
RECURSIVE DirectScan(_, _, _, _)
DirectScan(t, lo, hi, st) ==
    IF st.pos > hi THEN st
    ELSE IF lo = hi THEN DirectAt(t, st)
    ELSE DirectScan(t, ((lo + hi) \div 2) + 1, hi, DirectScan(t, lo, (lo + hi) \div 2, st))

\* lines 119-125
DirectPass(t) == DirectScan(t, 1, Len(t), [pos |-> 1, tbl |-> EmptyTable]).tbl

\* one match of [A-Z0-9\.]{1,10}|\d{1,3}:1 at t[pos]: the first alternative,
\* of length a, is tried first, the second, of b digits, only when the first fails
TokenLenOf(a, b) == IF a > 0 THEN a ELSE IF b > 0 THEN b + 2 ELSE 0

TokenLenAt(t, pos) == TokenLenOf(RunLen(t, pos, SymClass, 10), RatioLenAt(t, pos))

\* lines 137-139
FallbackTicker(st, c) == IF is_ticker_token(c) THEN [st EXCEPT !.last = c] ELSE st

\* lines 132-139 for one token
FallbackStep(st, tok) ==
    IF RATIO_RE(tok)
    THEN IF st.last # << >> /\ st.last \notin DOMAIN st.tbl
         THEN [st EXCEPT !.tbl = DictSet(st.tbl, st.last, IntOf(tok, 1, Len(tok) - 2)),
                         !.last = << >>]
         ELSE st
    ELSE FallbackTicker(st, CleanTicker(tok))

\* the token of line 129 at the scan position st.pos, of length n (0: none
\* starts here), then the loop body of line 131
FallbackAtLen(t, st, n) ==
    IF n = 0 THEN [st EXCEPT !.pos = st.pos + 1]
    ELSE [FallbackStep(st, SubSeq(t, st.pos, st.pos + n - 1)) EXCEPT !.pos = st.pos + n]

FallbackAt(t, st) == FallbackAtLen(t, st, TokenLenAt(t, st.pos))

RECURSIVE FallbackScan(_, _, _, _)
FallbackScan(t, lo, hi, st) ==
    IF st.pos > hi THEN st
    ELSE IF lo = hi THEN FallbackAt(t, st)
    ELSE FallbackScan(t, ((lo + hi) \div 2) + 1, hi, FallbackScan(t, lo, (lo + hi) \div 2, st))

\* lines 129-139
FallbackPass(t, tbl) ==
    FallbackScan(t, 1, Len(t), [pos |-> 1, tbl |-> tbl, last |-> << >>]).tbl

QualityThreshold == 100

\* line 128 on, d being the table the direct pass built
AfterDirect(t, d) ==
    IF Cardinality(DOMAIN d) < QualityThreshold THEN FallbackPass(t, d) ELSE d

ParseNormalized(t) == AfterDirect(t, DirectPass(t))

TableAfterDirect(txt) == DirectPass(normalize_text(txt))

parse_ratios_from_text(txt) == ParseNormalized(normalize_text(txt))

(***************************************************************************)
(* parse_ratios_from_pdf_bytes.  A PDF is modelled by what each of the two *)
(* extraction backends recovers from it; a backend that throws yields the  *)
(* empty text (lines 83-84 and 95-96).                                     *)
(***************************************************************************)
extract_text_pdfminer(pdf_bytes) == pdf_bytes.miner
extract_text_pymupdf(pdf_bytes) == pdf_bytes.mupdf

\* line 156 with >= for >: a tie goes to the second table
SecondIsAtLeast(ratios1, ratios2) ==
    Cardinality(DOMAIN ratios2) >= Cardinality(DOMAIN ratios1)

\* line 156: is the second table the better one
SecondIsBetter(ratios1, ratios2) ==
    Cardinality(DOMAIN ratios2) > Cardinality(DOMAIN ratios1)

\* lines 155-158
ChooseBest(ratios1, ratios2) ==
    IF SecondIsBetter(ratios1, ratios2)
    THEN [table |-> ratios2, mupdf |-> TRUE]
    ELSE [table |-> ratios1, mupdf |-> TRUE]

\* lines 149-158, ratios1 being the table of the first backend's text
AfterPdfminer(pdf_bytes, ratios1) ==
    IF Cardinality(DOMAIN ratios1) >= QualityThreshold
    THEN [table |-> ratios1, mupdf |-> FALSE]
    ELSE ChooseBest(ratios1, parse_ratios_from_text(extract_text_pymupdf(pdf_bytes)))

parse_ratios_from_pdf_bytes(pdf_bytes) ==
    AfterPdfminer(pdf_bytes, parse_ratios_from_text(extract_text_pdfminer(pdf_bytes)))

(***************************************************************************)
(* Inputs of the parser: texts put together from at most MaxPieces pieces. *)
(***************************************************************************)
MaxPieces == 4

Pieces ==
    { <<"A">>, <<"B">>, <<"U","S","D">>, <<"N","A","S","D","A","Q">>,
      <<" ","2",":","1"," ">>, <<" ","3",":","1","\n"," ">>,
      <<" ","0",":","1">>, <<" ","1","2","3","4",":","1">>,
      <<"x">>, <<".">>, <<":">> }

RECURSIVE Flat(_)
Flat(cs) == IF cs = << >> THEN << >> ELSE Head(cs) \o Flat(Tail(cs))

Texts == { Flat(cs) : cs \in UNION { [1..n -> Pieces] : n \in 0..MaxPieces } }

(***************************************************************************)
(* Inputs of the strategy selection: documents from which a backend        *)
(* recovers n rows "<ticker> <d>:1", n around the threshold of line 149.   *)
(***************************************************************************)
ExtraRows == 1
SmallRows == 3

RowLetters == << "A","B","C","F","G","H","I","J","K","M","O" >>

RowTicker(i) ==
    << RowLetters[(i \div Len(RowLetters)) + 1], RowLetters[(i % Len(RowLetters)) + 1] >>

RECURSIVE RowsRange(_, _, _)
RowsRange(lo, hi, d) ==
    IF lo > hi THEN << >>
    ELSE IF lo = hi THEN RowTicker(lo) \o << " ", d, ":", "1", "\n" >>
    ELSE RowsRange(lo, (lo + hi) \div 2, d) \o RowsRange(((lo + hi) \div 2) + 1, hi, d)

RowsText(n, d) == RowsRange(0, n - 1, d)

RowCounts ==
    (0..SmallRows) \cup ((QualityThreshold - 2)..(QualityThreshold + ExtraRows))

PdfCorpus ==
    { [miner |-> RowsText(n1, "2"), mupdf |-> RowsText(n2, "3")] :
        n1 \in RowCounts, n2 \in RowCounts }


(***************************************************************************)
(* The Streamlit script.  Every user interaction runs the script from top  *)
(* to bottom: the sidebar loads the table, then the calculate handler runs *)
(* when the button was pressed.                                            *)
(***************************************************************************)
Some(v) == << v >>
Absent == << >>

RatiosTTL == 3600
CclTTL == 300

PdfA == [miner |-> << "A"," ","1","0",":","1","\n","B"," ","3",":","1","\n",
                      "C"," ","0",":","1","\n" >>,
         mupdf |-> << "A"," ","1","0",":","1","\n" >>]
PdfB == [miner |-> << >>,
         mupdf |-> << "A"," ","4",":","1","\n" >>]

AppDocs == { PdfA, PdfB }
FetchError == [miner |-> << "!" >>, mupdf |-> << "!" >>]
Urls == { "u1" }
Tickers == { <<"A">>, <<"B">>, <<"C">>, <<"Z">> }
PriceCents == { 0, 1, 15000 }
CclCents == { 0, 100, 100000 }

\* parse_ratios_from_pdf_bytes on each document the session can meet
PdfTable == [d \in AppDocs |-> parse_ratios_from_pdf_bytes(d).table]

\* hashlib.sha256(b).hexdigest(): taken to be free of collisions
Sha256(b) == << "sha256", b >>

\* a cache keyed by the mode alone: the content hash is ignored
CacheKeyModeOnly(md, source) == << md, "" >>

\* the key st.cache_data derives from the call's arguments
CacheKey(md, source) == << md, source >>

CacheFresh(c, key, ttl) == key \in DOMAIN c /\ now < c[key].at + ttl

\* the body of load_ratios_from_source (lines 168-176); served is what
\* requests.get returns for the URL, FetchError when it raises
LoadBody(md, source, served, session_bytes) ==
    IF md = "drive_default" \/ md = "url"
    THEN IF served = FetchError
         THEN [raised |-> TRUE, val |-> EmptyTable]
         ELSE [raised |-> FALSE, val |-> PdfTable[served]]
    ELSE IF md = "upload"
    THEN [raised |-> FALSE, val |-> PdfTable[session_bytes]]
    ELSE [raised |-> FALSE, val |-> EmptyTable]

\* what st.cache_data does with the outcome b of the body on a miss, and the
\* caller's try/except: an exception leaves `ratios` at {} and caches nothing
StoreLoaded(key, b) ==
    IF b.raised
    THEN [ratios |-> EmptyTable, cache |-> cache, ran |-> TRUE]
    ELSE [ratios |-> b.val,
          cache |-> DictSet(cache, key, [val |-> b.val, at |-> now]),
          ran |-> TRUE]

\* load_ratios_from_source behind @st.cache_data(ttl=3600)
LoadCached(md, source, served, session_bytes) ==
    IF CacheFresh(cache, CacheKey(md, source), RatiosTTL)
    THEN [ratios |-> cache[CacheKey(md, source)].val, cache |-> cache, ran |-> FALSE]
    ELSE StoreLoaded(CacheKey(md, source), LoadBody(md, source, served, session_bytes))

\* get_ccl_price behind @st.cache_data(ttl=300): the answers it can give now,
\* each with the cache it leaves; the endpoint's quote is 0 on any failure
CclCall ==
    IF cclCache # Absent /\ now < cclCache[1].at + CclTTL
    THEN { [val |-> cclCache[1].val, cache |-> cclCache] }
    ELSE { [val |-> quote, cache |-> Some([val |-> quote, at |-> now])] :
               quote \in CclCents }

\* round(x, 2) of x = num/den cents: the nearest cent; an exact half goes
\* either way with the binary representation of the float
RoundCents(num, den) ==
    IF 2 * (num % den) < den THEN { num \div den }
    ELSE IF 2 * (num % den) > den THEN { (num \div den) + 1 }
    ELSE { num \div den, (num \div den) + 1 }

\* line 202 rounding the quotient to cents before it is multiplied by the rate
PrecioArsTwoStep(price_usd, ratio, ccl) ==
    UNION { RoundCents(a * ccl, 100) : a \in RoundCents(price_usd, ratio) }

\* line 202: round(price_usd / ratio * ccl, 2), prices in cents
PrecioArs(price_usd, ratio, ccl) ==
    RoundCents(price_usd * ccl, 100 * ratio)

\* line 200 without its test of the rate
ZeroGuardNoCcl(price_usd, ratio, ccl) == price_usd = 0 \/ ratio = 0

\* line 200
ZeroGuard(price_usd, ratio, ccl) == price_usd = 0 \/ ratio = 0 \/ ccl = 0

DictGet(d, k, default) == IF k \in DOMAIN d THEN d[k] ELSE default

NoResult ==
    [price |-> Absent, ratio |-> Absent, ccl |-> Absent, ars |-> Absent,
     priceFetched |-> FALSE, cclFetched |-> FALSE]

\* lines 200-203: the tuples the function can return
Derive(px, ratio, cclNow) ==
    IF ZeroGuard(px, ratio, cclNow)
    THEN { [price |-> Some(px), ratio |-> Some(ratio), ccl |-> Some(cclNow),
            ars |-> Absent, priceFetched |-> TRUE, cclFetched |-> TRUE] }
    ELSE { [price |-> Some(px), ratio |-> Some(ratio), ccl |-> Some(cclNow),
            ars |-> Some(a), priceFetched |-> TRUE, cclFetched |-> TRUE] :
               a \in PrecioArs(px, ratio, cclNow) }

\* lines 197-203 without the membership test of lines 195-196
calcular_precio_cedear_unchecked(ticker, tbl, px, cclNow) ==
    Derive(px, DictGet(tbl, ticker, 0), cclNow)

\* lines 194-203; px is what get_stock_price_usd returns, cclNow what
\* get_ccl_price returns
calcular_precio_cedear(ticker, tbl, px, cclNow) ==
    IF ticker \notin DOMAIN tbl THEN { NoResult }
    ELSE Derive(px, DictGet(tbl, ticker, 0), cclNow)

\* line 276
Incomplete(r) ==
    r.price = Some(0) \/ r.ratio = Some(0) \/ r.ccl = Some(0) \/ r.ars = Absent

MaxHist == 2

\* lines 276-297, r being the tuple calcular_precio_cedear returned.  Building
\* the TS field of the entry (line 296, pandas) may raise: the card has been
\* shown by then and nothing is appended.
Show(ticker, r) ==
    /\ result' = r
    /\ IF Incomplete(r)
       THEN /\ outcome' = "incomplete"
            /\ UNCHANGED hist
       ELSE \/ /\ Len(hist) < MaxHist
               /\ outcome' = "ok"
               /\ hist' = Append(hist,
                             [Ticker |-> ticker, Precio_USD |-> r.price[1],
                              Ratio |-> r.ratio[1], CCL |-> r.ccl[1],
                              Precio_CEDEAR_ARS |-> r.ars[1], TS |-> now])
            \/ /\ outcome' = "ok_then_raised"
               /\ UNCHANGED hist

\* line 274: px is the answer of get_stock_price_usd, c that of get_ccl_price
\* with the cache it leaves
Compute(ticker, px, c) ==
    /\ fetchedPx' = Some(px)
    /\ cclCache' = c.cache
    /\ \E r \in calcular_precio_cedear(ticker, ratios', px, c.val) : Show(ticker, r)

\* lines 267-297: the handler of the "Calcular CEDEAR" button, run against the
\* table the sidebar has just loaded (ratios')
Go(ticker) ==
    IF ratios' = EmptyTable
    THEN /\ outcome' = "no_ratios"
         /\ result' = NoResult
         /\ fetchedPx' = Absent
         /\ UNCHANGED << hist, cclCache >>
    ELSE IF ticker \notin DOMAIN ratios'
    THEN /\ outcome' = "unknown"
         /\ result' = NoResult
         /\ fetchedPx' = Absent
         /\ UNCHANGED << hist, cclCache >>
    ELSE \E px \in PriceCents, c \in CclCall : Compute(ticker, px, c)

\* lines 257-297 of one script run
Calculate(go, ticker) ==
    /\ asked' = [go |-> go, ticker |-> ticker]
    /\ IF go
       THEN Go(ticker)
       ELSE /\ outcome' = "idle"
            /\ result' = NoResult
            /\ fetchedPx' = Absent
            /\ UNCHANGED << hist, cclCache >>

\* the sidebar's outcome l of load_ratios_from_source (lines 215-241)
Sidebar(l) ==
    /\ ratios' = l.ratios
    /\ cache' = l.cache
    /\ loadRan' = l.ran

\* a run with "Drive (por defecto)" selected (lines 216-222)
RunDrive(served, go, ticker) ==
    /\ Sidebar(LoadCached("drive_default", "", served, upload_pdf_bytes))
    /\ mode' = "drive_default"
    /\ UNCHANGED upload_pdf_bytes
    /\ Calculate(go, ticker)
    /\ UNCHANGED << now, parseVars, pdfVars >>

\* a run with "Pegar URL PDF" selected (lines 224-230)
RunUrl(url_pdf, served, go, ticker) ==
    /\ Sidebar(LoadCached("url", url_pdf, served, upload_pdf_bytes))
    /\ mode' = "url"
    /\ UNCHANGED upload_pdf_bytes
    /\ Calculate(go, ticker)
    /\ UNCHANGED << now, parseVars, pdfVars >>

\* a run with "Subir PDF" selected and a file in the uploader (lines 232-241)
RunUpload(b, go, ticker) ==
    /\ upload_pdf_bytes' = Some(b)
    /\ Sidebar(LoadCached("upload", Sha256(b), FetchError, b))
    /\ mode' = "upload"
    /\ Calculate(go, ticker)
    /\ UNCHANGED << now, parseVars, pdfVars >>

\* a run with "Subir PDF" selected and no file (up is None): ratios stays {}
RunUploadEmpty(go, ticker) ==
    /\ ratios' = EmptyTable
    /\ loadRan' = FALSE
    /\ mode' = "upload_none"
    /\ UNCHANGED << upload_pdf_bytes, cache >>
    /\ Calculate(go, ticker)
    /\ UNCHANGED << now, parseVars, pdfVars >>

\* time passes between two runs
Tick(d, max) ==
    /\ now + d <= max
    /\ now' = now + d
    /\ UNCHANGED << upload_pdf_bytes, cache, ratios, loadRan, cclCache, hist,
                    outcome, result, asked, fetchedPx, mode, parseVars, pdfVars >>

(***************************************************************************)
(* The parser and the strategy selection as operations on their inputs.    *)
(***************************************************************************)
ParseText ==
    /\ ~parsed
    /\ parsed' = TRUE
    /\ direct' = TableAfterDirect(text)
    /\ table' = parse_ratios_from_text(text)
    /\ fallbackRan' = (Cardinality(DOMAIN direct') < QualityThreshold)
    /\ UNCHANGED << text, pdfVars, appVars >>

ParsePdf ==
    /\ ~pdfDone
    /\ pdfDone' = TRUE
    /\ LET r == parse_ratios_from_pdf_bytes(pdf)
       IN  /\ pdfResult' = r.table
           /\ pymupdfCalled' = r.mupdf
    /\ UNCHANGED << pdf, parseVars, appVars >>

InitParse ==
    /\ parsed = FALSE
    /\ direct = EmptyTable
    /\ table = EmptyTable
    /\ fallbackRan = FALSE

InitPdf ==
    /\ pdfResult = EmptyTable
    /\ pymupdfCalled = FALSE
    /\ pdfDone = FALSE

InitApp ==
    /\ now = 0
    /\ upload_pdf_bytes = Absent
    /\ cache = [k \in {} |-> 0]
    /\ ratios = EmptyTable
    /\ loadRan = FALSE
    /\ cclCache = Absent
    /\ hist = << >>
    /\ outcome = "idle"
    /\ result = NoResult
    /\ asked = [go |-> FALSE, ticker |-> << >>]
    /\ fetchedPx = Absent
    /\ mode = "none"

NoPdf == [miner |-> << >>, mupdf |-> << >>]

\* parse_ratios_from_text on every text of Texts
InitParseSpec ==
    /\ text \in Texts /\ pdf = NoPdf
    /\ InitParse /\ InitPdf /\ InitApp

SpecParse == InitParseSpec /\ [][ParseText]_vars

\* parse_ratios_from_pdf_bytes on every document of PdfCorpus
InitPdfSpec ==
    /\ text = << >> /\ pdf \in PdfCorpus
    /\ InitParse /\ InitPdf /\ InitApp

SpecPdf == InitPdfSpec /\ [][ParsePdf]_vars

MaxClock == 5400
LongWaits == { 1800, 3600 }

\* the sidebar across runs: sources, uploads and the one-hour cache
NextCache ==
    \/ \E served \in AppDocs \cup {FetchError} : RunDrive(served, FALSE, << >>)
    \/ \E u \in Urls, served \in AppDocs \cup {FetchError} : RunUrl(u, served, FALSE, << >>)
    \/ \E b \in AppDocs : RunUpload(b, FALSE, << >>)
    \/ RunUploadEmpty(FALSE, << >>)
    \/ \E d \in LongWaits : Tick(d, MaxClock)

InitCacheSpec ==
    /\ text = << >> /\ pdf = NoPdf
    /\ InitParse /\ InitPdf /\ InitApp

SpecCache == InitCacheSpec /\ [][NextCache]_vars

MaxCalcClock == 300

\* uploads and calculations within one session
NextCalc ==
    \/ \E b \in AppDocs : RunUpload(b, FALSE, << >>)
    \/ \E b \in AppDocs, t \in Tickers : RunUpload(b, TRUE, t)
    \/ \E t \in Tickers : RunUploadEmpty(TRUE, t)
    \/ Tick(CclTTL, MaxCalcClock)

InitCalcSpec ==
    /\ text = << >> /\ pdf = NoPdf
    /\ InitParse /\ InitPdf /\ InitApp

SpecCalc == InitCalcSpec /\ [][NextCalc]_vars


(***************************************************************************)
(* Properties.                                                             *)
(***************************************************************************)

\* The direct pass in which a symbol already in the table is skipped.
FirstWinsAt(t, st, m) ==
    IF m.ok
    THEN [pos |-> m.end,
          tbl |-> IF CleanTicker(m.tk) \in DOMAIN st.tbl THEN st.tbl
                  ELSE DirectStore(st.tbl, CleanTicker(m.tk), IntOf(t, m.from, m.to))]
    ELSE [pos |-> st.pos + 1, tbl |-> st.tbl]

RECURSIVE FirstWinsScan(_, _, _, _)
FirstWinsScan(t, lo, hi, st) ==
    IF st.pos > hi THEN st
    ELSE IF lo = hi THEN FirstWinsAt(t, st, DirectMatchAt(t, st.pos))
    ELSE FirstWinsScan(t, ((lo + hi) \div 2) + 1, hi,
                       FirstWinsScan(t, lo, (lo + hi) \div 2, st))

FirstOccurrence(txt) ==
    FirstWinsScan(normalize_text(txt), 1, Len(normalize_text(txt)),
                  [pos |-> 1, tbl |-> EmptyTable]).tbl

AgreesOn(small, big) ==
    \A k \in DOMAIN small : k \in DOMAIN big /\ big[k] = small[k]

\* C1: the returned table maps every symbol matched by the direct pass to the
\* ratio of its first match in the text; a later direct match for a symbol
\* already in the table never overwrites the stored value.
C1_FirstOccurrenceWins ==
    parsed => AgreesOn(FirstOccurrence(text), table)

MalformedOnly ==
    { sym \o m : sym \in { <<"A">>, <<"B">> },
                 m \in { <<" ","0",":","1">>, <<" ","1","2","3","4",":","1">> } }

\* C2: every value of the returned table is a strictly positive integer, and a
\* symbol followed only by 0:1 or by 1234:1 gets no entry at all.
C2_RatiosPositive ==
    parsed => /\ \A k \in DOMAIN table : table[k] > 0
              /\ text \in MalformedOnly => table = EmptyTable

\* 1-6 uppercase letters, optionally a dot and 1-2 uppercase letters
SymbolShape(k) ==
    LET dots == { i \in 1..Len(k) : k[i] = "." }
    IN  /\ \A i \in (1..Len(k)) \ dots : k[i] \in Upper
        /\ \/ dots = {} /\ Len(k) \in 1..6
           \/ \E d \in dots : dots = {d} /\ d - 1 \in 1..6 /\ Len(k) - d \in 1..2

\* C6: every key of the returned table has the symbol shape and is no member
\* of STOPWORDS; USD and NASDAQ next to a ratio token are never keys.
C6_KeysAreSymbols ==
    parsed => /\ \A k \in DOMAIN table : SymbolShape(k) /\ k \notin STOPWORDS
              /\ <<"U","S","D">> \notin DOMAIN table
              /\ <<"N","A","S","D","A","Q">> \notin DOMAIN table

\* "USD 2:1 A 3:1" has been parsed: USD, first in line for 2:1, is no key
C6_Witness ==
    /\ parsed
    /\ text = <<"U","S","D"," ","2",":","1"," ","A"," ","3",":","1","\n"," ">>
    /\ DOMAIN table = { <<"A">> }
    /\ table[<<"A">>] = 3

\* The fallback pass over the tokens the two shapes of line 129 describe: a
\* run of the ratio shape is a ratio token, any other run of the loose symbol
\* shape a symbol token.
ShapeTokenLenAt(t, pos) ==
    IF RatioLenAt(t, pos) > 0 THEN RatioLenAt(t, pos) + 2
    ELSE RunLen(t, pos, SymClass, 10)

RECURSIVE PairingScan(_, _, _, _)
PairingScan(t, lo, hi, st) ==
    IF st.pos > hi THEN st
    ELSE IF lo = hi THEN FallbackAtLen(t, st, ShapeTokenLenAt(t, st.pos))
    ELSE PairingScan(t, ((lo + hi) \div 2) + 1, hi,
                     PairingScan(t, lo, (lo + hi) \div 2, st))

Pairing(txt, tbl) ==
    PairingScan(normalize_text(txt), 1, Len(normalize_text(txt)),
                [pos |-> 1, tbl |-> tbl, last |-> << >>]).tbl

\* C9: when the fallback pass runs, the returned table is the direct pass's
\* table plus, for each ratio token met while a valid symbol candidate is
\* pending and not yet a key, the binding of that candidate to the ratio (the
\* candidate is then cleared); no other ratio token creates an entry and no
\* existing entry changes.
C9_FallbackPairs ==
    (parsed /\ fallbackRan) => table = Pairing(text, direct)

C8_Selects(ratios1, ratios2) ==
    IF Cardinality(DOMAIN ratios1) >= QualityThreshold
    THEN pdfResult = ratios1 /\ ~pymupdfCalled
    ELSE /\ pymupdfCalled
         /\ pdfResult = IF Cardinality(DOMAIN ratios2) > Cardinality(DOMAIN ratios1)
                        THEN ratios2 ELSE ratios1

\* C8: with at least 100 entries from the first backend's text that table is
\* returned and the second backend is not invoked; otherwise the second table
\* is built too and returned only when it has strictly more entries.
C8_StrategySelection ==
    pdfDone => C8_Selects(parse_ratios_from_text(pdf.miner),
                          parse_ratios_from_text(pdf.mupdf))

\* a tie below the threshold, the two tables differing: the first is returned
C8_Witness ==
    /\ pdfDone
    /\ pdf = [miner |-> RowsText(QualityThreshold - 1, "2"),
              mupdf |-> RowsText(QualityThreshold - 1, "3")]
    /\ pymupdfCalled
    /\ Cardinality(DOMAIN pdfResult) = QualityThreshold - 1
    /\ \A k \in DOMAIN pdfResult : pdfResult[k] = 2

C7_Current ==
    mode = "upload" =>
        /\ upload_pdf_bytes # Absent
        /\ ratios = parse_ratios_from_pdf_bytes(upload_pdf_bytes[1]).table

C7_Reuse ==
    (/\ mode' = "upload"
     /\ now' = now
     /\ << "upload", Sha256(upload_pdf_bytes'[1]) >> \in DOMAIN cache
     /\ now < cache[<< "upload", Sha256(upload_pdf_bytes'[1]) >>].at + RatiosTTL)
    => /\ ~loadRan'
       /\ ratios' = cache[<< "upload", Sha256(upload_pdf_bytes'[1]) >>].val
       /\ cache' = cache

\* C7: after any run in upload mode the table in use is the parse of the bytes
\* now uploaded, whatever was uploaded or loaded before; and an upload whose
\* content hash has an entry younger than the TTL gets that entry without the
\* body of load_ratios_from_source running.
C7_UploadCache == [](C7_Current) /\ [][C7_Reuse]_vars

\* PdfB uploaded again after PdfA, within the hour: served from the cache
C7_Witness ==
    /\ mode = "upload"
    /\ upload_pdf_bytes = Some(PdfB)
    /\ ~loadRan
    /\ now > 0
    /\ << "upload", Sha256(PdfA) >> \in DOMAIN cache
    /\ ratios = (<<"A">> :> 4)

Dist(a, b) == IF a >= b THEN a - b ELSE b - a

\* ars is a cent value nearest to P / R * C, all in cents
NearestCent(ars, P, R, C) == 2 * Dist(100 * R * ars, P * C) <= 100 * R

\* C3 as amended: the returned price is round(P / R * C, 2): the product is
\* rounded to cents once, at the end.
C3_RoundsOnce ==
    result.ars # Absent =>
        /\ NearestCent(result.ars[1], result.price[1], result.ratio[1], result.ccl[1])
        /\ (result.price[1] = 15000 /\ result.ratio[1] = 10 /\ result.ccl[1] = 100000)
               => result.ars[1] = 1500000

\* 0.01 USD at 3:1 and 1000.00: 3.33, where rounding 0.01/3 first gives 0.00
C3_Witness ==
    /\ result.price = Some(1)
    /\ result.ratio = Some(3)
    /\ result.ccl = Some(100000)
    /\ result.ars = Some(333)

\* C3 as claimed: the returned price is round(round(P / R, 2) * C, 2).
C3_RoundsAtEachStep ==
    result.ars # Absent =>
        result.ars[1] \in UNION { RoundCents(a * result.ccl[1], 100) :
                                     a \in RoundCents(result.price[1], result.ratio[1]) }

\* C4: for a symbol of the table the result carries the fetched price, the
\* table's ratio and the rate, and the derived price is absent exactly when
\* one of the three is 0.
C4_ZeroGuard ==
    fetchedPx # Absent =>
        /\ result.price = fetchedPx
        /\ result.ratio = Some(ratios[asked.ticker])
        /\ result.ccl # Absent /\ result.ccl = Some(cclCache[1].val)
        /\ (result.ars = Absent) <=>
               (result.price[1] = 0 \/ result.ratio[1] = 0 \/ result.ccl[1] = 0)

\* price and ratio at hand, the rate failed: inputs shown, no derived price
C4_Witness ==
    /\ fetchedPx = Some(15000)
    /\ result.price = Some(15000)
    /\ result.ratio = Some(10)
    /\ result.ccl = Some(0)
    /\ result.ars = Absent
    /\ outcome = "incomplete"

C5_Unknown ==
    (asked.go /\ asked.ticker \notin DOMAIN ratios) =>
        /\ fetchedPx = Absent
        /\ result = NoResult
        /\ outcome \in { "unknown", "no_ratios" }

C5_Function ==
    \A t \in Tickers \ DOMAIN ratios : \A px \in PriceCents, c \in CclCents :
        calcular_precio_cedear(t, ratios, px, c) = { NoResult }

C5_Frame ==
    (asked'.go /\ asked'.ticker \notin DOMAIN ratios')
    => hist' = hist /\ cclCache' = cclCache

\* C5: a calculation asked for a symbol that is no key of the table fetches
\* neither the price nor the rate, ends in the all-absent result and a message
\* other than that of incomplete inputs, and leaves the history as it was.
C5_UnknownSymbol == [](C5_Unknown /\ C5_Function) /\ [][C5_Frame]_vars

\* Z asked against a loaded table, with an entry already in the history
C5_Witness ==
    /\ asked = [go |-> TRUE, ticker |-> <<"Z">>]
    /\ ratios # EmptyTable
    /\ outcome = "unknown"
    /\ Len(hist) = 1

\* C10: every entry of the history has a strictly positive price, ratio and
\* rate and a derived price that is present and not zero, and a calculation
\* reported as a valid result has a derived price that is not zero.
C10_HistoryValid ==
    /\ \A i \in 1..Len(hist) :
           /\ hist[i].Precio_USD > 0
           /\ hist[i].Ratio > 0
           /\ hist[i].CCL > 0
           /\ hist[i].Precio_CEDEAR_ARS > 0
    /\ outcome \in { "ok", "ok_then_raised" } =>
           result.ars # Absent /\ result.ars[1] > 0

====
